---- MODULE Spec2Model ----
(***************************************************************************)
(* A model of the auto_laser simulation engine: the world (ClosedRoom,     *)
(* House), the agents (Cat, Laser), the RangingOracle sensor, the three    *)
(* controllers and Simulator.step / Simulator.reset.                       *)
(*                                                                         *)
(* Numbers.  Lengths are integers in hundredths of a metre, velocities in  *)
(* hundredths of a metre per second, so that one timestep of 10 ms moves   *)
(* an agent by velocity / 100.  A step is modelled only while that         *)
(* quotient is exact (Representable).  np.linalg.norm is modelled by the   *)
(* squared norm, which orders vectors the same way.                        *)
(*                                                                         *)
(* Objects.  numpy arrays that the code mutates in place (positions, by    *)
(* +=) live in the heap "arrays" and are held by reference (a cell         *)
(* number); arrays that are only ever replaced (velocities, payloads) are  *)
(* values.  None is 0 for an agent reference and <<>> for a vector.        *)
(***************************************************************************)
EXTENDS Integers, Sequences, FiniteSets, TLC

VARIABLES
    house,          \* Simulator.house: the sequence of rooms of the House
    cats,           \* Simulator.cats: sequence of Cat objects
    lasers,         \* Simulator.lasers: sequence of Laser objects
    arrays,         \* heap of the position arrays (mutated in place)
    current_step,   \* Simulator.current_step
    distances,      \* the local "distances" of the last step (<<>>: not built)
    observations,   \* the sensor readings of the last step, per agent
    render_artifacts, \* Simulator.render_artifacts (<<>>: attribute not made yet)
    err,            \* the exception that ended the run ("none": still running)
    op,             \* the last operation called on the simulator
    asked_steps,    \* the argument of that call when it is simulate, else 0
    ctl,            \* a controller object called directly
    ctl_in,         \* the observations passed to the last direct call
    ctl_out,        \* the payload the last direct call returned (<<>>: none)
    ctl_err,        \* the exception the last direct call raised
    issued,         \* every payload the directly called controller committed
    probe           \* the last call made directly on the house or one of its rooms

vars == <<house, cats, lasers, arrays, current_step, distances, observations,
          render_artifacts, err, op, asked_steps, ctl, ctl_in, ctl_out, ctl_err,
          issued, probe>>

simvars == <<house, cats, lasers, arrays, current_step, distances,
             observations, render_artifacts, err, op, asked_steps>>

ctlvars == <<ctl, ctl_in, ctl_out, ctl_err, issued>>

----------------------------------------------------------------------------
(* Units and bounds *)

Meter == 100

TicksPerSecond == 100

DefaultBufferSize == 1000

MaxCats == 2

MaxLasers == 2

MaxSteps == 3

RunLimit == 130

MaxRandom == 1

MaxBuffer == 2

MaxObs == 2

MaxCalls == 3

MaxSimulate == 2

----------------------------------------------------------------------------
(* Vectors *)

Zero == <<0, 0>>

Add(a, b) == <<a[1] + b[1], a[2] + b[2]>>

Sub(a, b) == <<a[1] - b[1], a[2] - b[2]>>

Neg(a) == <<0 - a[1], 0 - a[2]>>

Scale(k, a) == <<k * a[1], k * a[2]>>

NormSq(a) == a[1] * a[1] + a[2] * a[2]

Representable(v) == v[1] % TicksPerSecond = 0 /\ v[2] % TicksPerSecond = 0

TimesDt(v) == <<v[1] \div TicksPerSecond, v[2] \div TicksPerSecond>>

----------------------------------------------------------------------------
(* world.py *)

BoundarySegment(p0, p1, normal) == [endpoints |-> <<p0, p1>>, inside_normal |-> normal]

BoundarySegment_translate(wall, translation) ==
    [wall EXCEPT !.endpoints = <<Add(@[1], translation), Add(@[2], translation)>>]

ClosedRoom(width, height) ==
    LET hw == width \div 2
        hh == height \div 2
        bottom_left_corner  == <<0 - hw, 0 - hh>>
        bottom_right_corner == <<hw, 0 - hh>>
        top_right_corner    == <<hw, hh>>
        top_left_corner     == <<0 - hw, hh>>
    IN  [ _width |-> width, _height |-> height,
          half_width |-> hw, half_height |-> hh,
          origin |-> Zero,
          _walls |-> << BoundarySegment(bottom_left_corner, bottom_right_corner, <<0, 1>>),
                        BoundarySegment(bottom_right_corner, top_right_corner, <<-1, 0>>),
                        BoundarySegment(top_right_corner, top_left_corner, <<0, -1>>),
                        BoundarySegment(top_left_corner, bottom_left_corner, <<1, 0>>) >> ]

ClosedRoom_translate(room, translation) ==
    [room EXCEPT !.origin = translation,
                 !._walls = [w \in 1..Len(@) |-> BoundarySegment_translate(@[w], translation)]]

ClosedRoom_inside_closed(room, point) ==
    LET within_width  == (point[1] - room.origin[1]) <= room.half_width
                         /\ (point[1] - room.origin[1]) >= 0 - room.half_width
        within_height == (point[2] - room.origin[2]) <= room.half_height
                         /\ (point[2] - room.origin[2]) >= 0 - room.half_height
    IN  within_width /\ within_height

ClosedRoom_inside_untranslated(room, point) ==
    LET within_width  == point[1] < room.half_width /\ point[1] > 0 - room.half_width
        within_height == point[2] < room.half_height /\ point[2] > 0 - room.half_height
    IN  within_width /\ within_height

ClosedRoom_inside(room, point) ==
    LET within_width  == (point[1] - room.origin[1]) < room.half_width
                         /\ (point[1] - room.origin[1]) > 0 - room.half_width
        within_height == (point[2] - room.origin[2]) < room.half_height
                         /\ (point[2] - room.origin[2]) > 0 - room.half_height
    IN  within_width /\ within_height

RECURSIVE House_inside_from(_, _, _, _)
House_inside_from(rooms, point, r, is_inside) ==
    IF r > Len(rooms) THEN is_inside
    ELSE House_inside_from(rooms, point, r + 1,
             IF ClosedRoom_inside(rooms[r], point) THEN TRUE ELSE is_inside)

House_inside(rooms, point) == House_inside_from(rooms, point, 1, FALSE)

\* utils.normalize, for a vector along an axis (its norm is then the sum of
\* the absolute values of its components): v / ||v||
normalize(v) ==
    LET n == (IF v[1] < 0 THEN 0 - v[1] ELSE v[1]) + (IF v[2] < 0 THEN 0 - v[2] ELSE v[2])
    IN  <<v[1] \div n, v[2] \div n>>

dot(a, b) == a[1] * b[1] + a[2] * b[2]

\* np.cross of two vectors of the plane
cross(a, b) == a[1] * b[2] - a[2] * b[1]

\* np.linalg.norm of a vector along an axis
norm(v) ==
    (IF v[1] < 0 THEN 0 - v[1] ELSE v[1]) + (IF v[2] < 0 THEN 0 - v[2] ELSE v[2])

\* BoundarySegment.ray_intersection: the list of intersections (none or one).
\* t1 = cross(v2, v1) / dot(v2, v3) and t2 = dot(v1, v3) / dot(v2, v3) are
\* compared with 0 and 1 by the signs of numerator and denominator.
ray_intersection(wall, ray_origin, ray_direction) ==
    LET d  == normalize(ray_direction)
        v1 == Sub(ray_origin, wall.endpoints[1])
        v2 == Sub(wall.endpoints[2], wall.endpoints[1])
        v3 == <<0 - d[2], d[1]>>
        den == dot(v2, v3)
        n1 == cross(v2, v1)
        n2 == dot(v1, v3)
    IN  IF den = 0 THEN <<>>
        ELSE IF /\ n1 * den >= 0
                /\ n2 * den >= 0
                /\ IF den > 0 THEN n2 <= den ELSE n2 >= den
             THEN << Add(ray_origin, Scale(n1 \div den, d)) >>
             ELSE <<>>

\* floats: np.inf, and the finite values
Infinity == [finite |-> FALSE, value |-> 0]

Finite(x) == [finite |-> TRUE, value |-> x]

less_than(a, b) == a.finite /\ (~b.finite \/ a.value < b.value)

\* min(l) of a non-empty list: the index of the least
minimum(l) ==
    CHOOSE k \in 1..Len(l) : \A m \in 1..Len(l) : l[k] <= l[m]

\* the for loop of ClosedRoom.distance_to_boundary: the list "distances"
RECURSIVE wall_distances(_, _, _, _)
wall_distances(room, point, direction, w) ==
    IF w > Len(room._walls) THEN <<>>
    ELSE LET intersection == ray_intersection(room._walls[w], point, direction)
             rest == wall_distances(room, point, direction, w + 1)
         IN  IF Len(intersection) # 0
             THEN <<norm(Sub(intersection[1], point))>> \o rest
             ELSE rest

\* ClosedRoom.distance_to_boundary: a numpy scalar, or the list [np.inf]
ClosedRoom_distance_to_boundary(room, point, direction) ==
    LET distances_ == wall_distances(room, point, direction, 1)
    IN  IF Len(distances_) > 0
        THEN [type |-> "float64", x |-> Finite(distances_[minimum(distances_)])]
        ELSE [type |-> "list", x |-> Infinity]

\* the for loop of House.distance_to_boundary; acc is [err, type, x], the
\* local "distance" and the exception raised.  A list is not ordered against
\* a Python float (TypeError); against a numpy scalar the comparison is made
\* element by element, and [inf] < distance is false.
RECURSIVE house_distance_loop(_, _, _, _, _)
house_distance_loop(rooms, point, direction, r, acc) ==
    IF r > Len(rooms) \/ acc.err # "none" THEN acc
    ELSE LET intra_room_distance == ClosedRoom_distance_to_boundary(rooms[r], point, direction)
         IN  IF intra_room_distance.type = "list"
             THEN IF acc.type = "float"
                  THEN [acc EXCEPT !.err = "TypeError"]
                  ELSE house_distance_loop(rooms, point, direction, r + 1, acc)
             ELSE IF less_than(intra_room_distance.x, acc.x)
                  THEN house_distance_loop(rooms, point, direction, r + 1,
                           [acc EXCEPT !.type = "float64", !.x = intra_room_distance.x])
                  ELSE house_distance_loop(rooms, point, direction, r + 1, acc)

\* House.distance_to_boundary
House_distance_to_boundary(rooms, point, direction) ==
    house_distance_loop(rooms, point, direction, 1,
        [err |-> "none", type |-> "float", x |-> Infinity])

\* the house of experiments/simple.py: one 5 m x 5 m room
SimpleHouse == << ClosedRoom(5 * Meter, 5 * Meter) >>

\* the same room with a 2 m x 2 m room moved against its right wall
AnnexHouse ==
    << ClosedRoom(5 * Meter, 5 * Meter),
       ClosedRoom_translate(ClosedRoom(2 * Meter, 2 * Meter), <<350, 0>>) >>

Houses == {SimpleHouse, AnnexHouse}

----------------------------------------------------------------------------
(* control.py *)

ConstantController(constant) ==
    [name |-> "ContantController", constant |-> constant, _mode |-> "",
     gain |-> 0, _buffer_size |-> 0, _history |-> <<constant>>]

RandomController(gain, buffer_size) ==
    [name |-> "RandomController", constant |-> Zero, _mode |-> "",
     gain |-> gain, _buffer_size |-> buffer_size, _history |-> <<>>]

RangingOracleController(mode, buffer_size) ==
    [name |-> "RangingOracleController", constant |-> Zero, _mode |-> mode,
     gain |-> 0, _buffer_size |-> buffer_size, _history |-> <<>>]

\* list.pop() with no index removes the last element
list_pop(l) == SubSeq(l, 1, Len(l) - 1)

history_append_unbounded(c, payload) ==
    [c EXCEPT !._history = Append(@, payload)]

\* if len(self._history) >= self._buffer_size: self._history.pop()
\* self._history.append(...)
history_append(c, payload) ==
    LET kept == IF Len(c._history) >= c._buffer_size
                THEN list_pop(c._history) ELSE c._history
    IN  [c EXCEPT !._history = Append(kept, payload)]

ConstantController_call(c, state) ==
    [err |-> "none", payload |-> c.constant, controller |-> c]

\* draw is the sample of npr.uniform(-1.0, 1.0, size=2), in hundredths
RandomController_call(c, state, draw) ==
    LET control == Scale(c.gain, draw)
    IN  [err |-> "none", payload |-> control, controller |-> history_append(c, control)]

select_last_largest(control, observation) == NormSq(observation) >= NormSq(control)

\* np.linalg.norm(observation.payload) > np.linalg.norm(control)
select(control, observation) == NormSq(observation) > NormSq(control)

avoid_without_negation(payload) == payload

avoid(payload) == Neg(payload)

\* the for loop of RangingOracleController.__call__: acc is [err, control]
RECURSIVE ranging_loop(_, _, _, _)
ranging_loop(mode, state, k, acc) ==
    IF k > Len(state) \/ acc.err # "none" THEN acc
    ELSE IF select(acc.control, state[k])
         THEN IF mode = "target"
              THEN ranging_loop(mode, state, k + 1, [acc EXCEPT !.control = state[k]])
              ELSE IF mode = "avoid"
                   THEN ranging_loop(mode, state, k + 1, [acc EXCEPT !.control = avoid(state[k])])
                   ELSE [acc EXCEPT !.err = "NotImplementedError"]
         ELSE ranging_loop(mode, state, k + 1, acc)

RangingOracleController_call(c, state) ==
    LET acc == ranging_loop(c._mode, state, 1, [err |-> "none", control |-> Zero])
    IN  IF acc.err # "none"
        THEN [err |-> acc.err, payload |-> <<>>, controller |-> c]
        ELSE [err |-> "none", payload |-> acc.control,
              controller |-> history_append(c, acc.control)]

\* controller(state): dispatch on the controller's class
Controller_call(c, state, draw) ==
    IF c.name = "RangingOracleController" THEN RangingOracleController_call(c, state)
    ELSE IF c.name = "RandomController" THEN RandomController_call(c, state, draw)
    ELSE ConstantController_call(c, state)

----------------------------------------------------------------------------
(* sensors.py, cat.py, laser.py *)

\* RangingOracle(subject, target=None); the subject is "self" for the agent
\* that holds the sensor and "other" for any other object
RangingOracle(subject, target) ==
    [name |-> "RangingOracle", _subject |-> subject, _target |-> target]

\* config.sensor left at None
NoSensor == [name |-> "None", _subject |-> "", _target |-> 0]

\* the attribute "sensor" of an agent on which it was never assigned
Unset == [name |-> "unset", _subject |-> "", _target |-> 0]

\* cell 1 is the array CatConfig.initial_position defaults to, cell 2 the one
\* LaserConfig.initial_position defaults to; the other cells are arrays the
\* caller built for one configuration
CatDefaultCell == 1

LaserDefaultCell == 2

AgentConfig(cell, position, velocity, controller, sensor) ==
    [ max_speed |-> 1 * Meter,
      initial_position |-> cell,
      configured_position |-> position,
      initial_velocity |-> velocity,
      controller |-> controller,
      sensor |-> sensor ]

\* Cat.__init__: self.sensor is assigned only when config.sensor is None
Cat(config) ==
    [ config |-> config,
      _max_speed |-> config.max_speed,
      _position |-> config.initial_position,
      _velocity |-> config.initial_velocity,
      controller |-> config.controller,
      _target |-> 0,
      sensor |-> IF config.sensor = NoSensor THEN RangingOracle("self", 0) ELSE Unset ]

\* Laser.reset calls self.sensor.reset() when config.sensor is not None, and
\* that raises AttributeError on a laser whose attribute was never assigned
Laser_reset_raises(laser) == laser.config.sensor # NoSensor /\ laser.sensor = Unset

\* Laser.reset on an object that exists: the controller is kept
Laser_reset(laser) ==
    [ laser EXCEPT !._position = laser.config.initial_position,
                   !._velocity = laser.config.initial_velocity,
                   !._max_speed = laser.config.max_speed,
                   !.sensor = IF laser.config.sensor = NoSensor
                              THEN RangingOracle("self", 0) ELSE @ ]

\* Laser.__init__: reset on a new object, where self.controller is not set yet
Laser(config) ==
    [ config |-> config,
      _max_speed |-> config.max_speed,
      _position |-> config.initial_position,
      _velocity |-> config.initial_velocity,
      controller |-> config.controller,
      _target |-> 0,
      sensor |-> IF config.sensor = NoSensor THEN RangingOracle("self", 0) ELSE Unset ]

target_set_without_sensor(agent, new_target) ==
    [agent EXCEPT !._target = new_target]

\* the target setter of Cat and of Laser
target_set(agent, new_target) ==
    [agent EXCEPT !.sensor._target = new_target, !._target = new_target]

read_subject_minus_target(subject_position, target_position) ==
    Sub(subject_position, target_position)

\* RangingOracle.read: self._target.position - self._subject.position
RangingOracle_read(subject_position, target_position) ==
    Sub(target_position, subject_position)

----------------------------------------------------------------------------
(* simulate.py: Simulator.step, one phase per loop of the method *)

Position(s, agent) == s.arrays[agent._position]

\* the one element of a singleton: {e : x \in {v}} binds x to the value of v,
\* so that a loop hands its next iteration a value, not an expression
The(S) == CHOOSE x \in S : TRUE

NoObservations(s) ==
    [cats |-> [i \in 1..Len(s.cats) |-> <<>>], lasers |-> [j \in 1..Len(s.lasers) |-> <<>>]]

\* the locals of a call of step, before its first loop
begin_step(s) == [s EXCEPT !.distances = <<>>, !.observations = NoObservations(s)]

RECURSIVE move_cats(_, _)
move_cats(s, i) ==
    IF i > Len(s.cats) THEN s
    ELSE LET cell  == s.cats[i]._position
             moved == Add(s.arrays[cell], TimesDt(s.cats[i]._velocity))
             s1    == [s EXCEPT !.arrays[cell] = moved]
         IN  IF ~House_inside(s.house, moved)
             THEN [s1 EXCEPT !.err = "Collision"]
             ELSE The({move_cats(s2, i + 1) : s2 \in {s1}})

RECURSIVE move_lasers(_, _)
move_lasers(s, j) ==
    IF j > Len(s.lasers) THEN s
    ELSE LET cell  == s.lasers[j]._position
             moved == Add(s.arrays[cell], TimesDt(s.lasers[j]._velocity))
             s1    == [s EXCEPT !.arrays[cell] = moved]
         IN  IF ~House_inside(s.house, moved)
             THEN [s1 EXCEPT !.err = "Collision"]
             ELSE The({move_lasers(s2, j + 1) : s2 \in {s1}})

compute_distances(s) ==
    [s EXCEPT !.distances =
        [i \in 1..Len(s.cats) |->
            [j \in 1..Len(s.lasers) |->
                NormSq(Sub(Position(s, s.cats[i]), Position(s, s.lasers[j])))]]]

argmin_last(row) ==
    CHOOSE k \in 1..Len(row) :
        /\ \A m \in 1..Len(row) : row[k] <= row[m]
        /\ \A m \in (k + 1)..Len(row) : row[m] > row[k]

\* np.argmin of a non-empty vector: the first index of the minimum
argmin(row) ==
    CHOOSE k \in 1..Len(row) :
        /\ \A m \in 1..Len(row) : row[k] <= row[m]
        /\ \A m \in 1..(k - 1) : row[m] > row[k]

RECURSIVE target_cats(_, _)
target_cats(s, i) ==
    IF i > Len(s.cats) THEN s
    ELSE IF Len(s.lasers) = 0 THEN [s EXCEPT !.err = "EmptyArgmin"]
    ELSE IF s.cats[i].sensor = Unset THEN [s EXCEPT !.err = "AttributeError"]
    ELSE The({target_cats(s2, i + 1) :
                s2 \in {[s EXCEPT !.cats[i] = target_set(@, argmin(s.distances[i]))]}})

RECURSIVE target_lasers(_, _)
target_lasers(s, j) ==
    IF j > Len(s.lasers) THEN s
    ELSE IF Len(s.cats) = 0 THEN [s EXCEPT !.err = "EmptyArgmin"]
    ELSE IF s.lasers[j].sensor = Unset THEN [s EXCEPT !.err = "AttributeError"]
    ELSE LET column == [i \in 1..Len(s.cats) |-> s.distances[i][j]]
         IN  The({target_lasers(s2, j + 1) :
                    s2 \in {[s EXCEPT !.lasers[j] = target_set(@, argmin(column))]}})

RECURSIVE control_cats(_, _, _)
control_cats(s, i, draws) ==
    IF i > Len(s.cats) THEN s
    ELSE LET cat == s.cats[i]
         IN  IF cat.sensor._target = 0 THEN [s EXCEPT !.err = "MissingTarget"]
             ELSE LET observation == RangingOracle_read(Position(s, cat),
                                         Position(s, s.lasers[cat.sensor._target]))
                      signal == Controller_call(cat.controller, <<observation>>, draws[i])
                      s1 == [s EXCEPT !.observations.cats[i] = observation]
                  IN  IF signal.err # "none" THEN [s1 EXCEPT !.err = signal.err]
                      ELSE The({control_cats(s2, i + 1, draws) :
                                  s2 \in {[s1 EXCEPT !.cats[i].controller = signal.controller,
                                                     !.cats[i]._velocity = signal.payload]}})

RECURSIVE control_lasers(_, _, _)
control_lasers(s, j, draws) ==
    IF j > Len(s.lasers) THEN s
    ELSE LET laser == s.lasers[j]
         IN  IF laser.sensor._target = 0 THEN [s EXCEPT !.err = "MissingTarget"]
             ELSE LET observation == RangingOracle_read(Position(s, laser),
                                         Position(s, s.cats[laser.sensor._target]))
                      signal == Controller_call(laser.controller, <<observation>>, draws[j])
                      s1 == [s EXCEPT !.observations.lasers[j] = observation]
                  IN  IF signal.err # "none" THEN [s1 EXCEPT !.err = signal.err]
                      ELSE The({control_lasers(s2, j + 1, draws) :
                                  s2 \in {[s1 EXCEPT !.lasers[j].controller = signal.controller,
                                                     !.lasers[j]._velocity = signal.payload]}})

\* run the phases in order until one raises
RECURSIVE run_phases(_, _, _, _)
run_phases(s, order, k, draws) ==
    IF s.err # "none" THEN s
    ELSE IF k > Len(order) THEN [s EXCEPT !.current_step = @ + 1]
    ELSE LET phase == order[k]
             s1 == IF phase = "move_cats" THEN move_cats(s, 1)
                   ELSE IF phase = "move_lasers" THEN move_lasers(s, 1)
                   ELSE IF phase = "distances" THEN compute_distances(s)
                   ELSE IF phase = "target_cats" THEN target_cats(s, 1)
                   ELSE IF phase = "target_lasers" THEN target_lasers(s, 1)
                   ELSE IF phase = "control_cats" THEN control_cats(s, 1, draws.cats)
                   ELSE control_lasers(s, 1, draws.lasers)
         IN  The({run_phases(s2, order, k + 1, draws) : s2 \in {s1}})

step_distances_first(s, draws) ==
    run_phases(The({begin_step(s0) : s0 \in {s}}),
        <<"move_cats", "distances", "move_lasers", "target_cats", "target_lasers",
          "control_cats", "control_lasers">>, 1, draws)

\* Simulator.step
step(s, draws) ==
    run_phases(The({begin_step(s0) : s0 \in {s}}),
        <<"move_cats", "move_lasers", "distances", "target_cats", "target_lasers",
          "control_cats", "control_lasers">>, 1, draws)

\* copy.deepcopy(agent): the object as it is now, with its own position array
deepcopy(s, agent) == [object |-> agent, position |-> s.arrays[agent._position]]

\* controller.history returns the list self._history itself: the artifact
\* holds the list of the controller of agent "index" of "of", not a copy
history(of, index) == [of |-> of, index |-> index]

\* Simulator.save_render_artifacts
save_render_artifacts(s) ==
    LET artifact ==
            [ cats |-> [i \in 1..Len(s.cats) |->
                  [cat |-> deepcopy(s, s.cats[i]), control |-> history("cats", i)]],
              lasers |-> [j \in 1..Len(s.lasers) |->
                  [laser |-> deepcopy(s, s.lasers[j]), control |-> history("lasers", j)]] ]
    IN  [s EXCEPT !.render_artifacts = Append(@, artifact)]

\* Simulator.step(save_render_artifacts=True)
step_saving(s, draws) ==
    step(The({save_render_artifacts(s0) : s0 \in {s}}), draws)

\* the for loop of Simulator.simulate: an exception raised by a step ends it
RECURSIVE simulate_from(_, _, _, _, _)
simulate_from(s, num_steps, save, draws, k) ==
    IF k > num_steps \/ s.err # "none" THEN s
    ELSE The({simulate_from(s1, num_steps, save, draws, k + 1) :
                s1 \in {IF save THEN step_saving(s, draws[k]) ELSE step(s, draws[k])}})

simulate_without_last(s, num_steps, save, draws) ==
    simulate_from(s, num_steps - 1, save, draws, 1)

\* Simulator.simulate(num_steps, **kwargs); save is the option
\* save_render_artifacts of kwargs
simulate(s, num_steps, save, draws) == simulate_from(s, num_steps, save, draws, 1)

\* every step of the run moves every agent by a whole number of hundredths
RECURSIVE representable_run(_, _, _, _)
representable_run(s, num_steps, draws, k) ==
    IF k > num_steps \/ s.err # "none" THEN TRUE
    ELSE /\ \A i \in 1..Len(s.cats) : Representable(s.cats[i]._velocity)
         /\ \A j \in 1..Len(s.lasers) : Representable(s.lasers[j]._velocity)
         /\ The({representable_run(s1, num_steps, draws, k + 1) :
                   s1 \in {step(s, draws[k])}})

RECURSIVE reset_lasers(_, _)
reset_lasers(s, j) ==
    IF j > Len(s.lasers) THEN s
    ELSE IF Laser_reset_raises(s.lasers[j]) THEN [s EXCEPT !.err = "AttributeError"]
    ELSE The({reset_lasers(s2, j + 1) : s2 \in {[s EXCEPT !.lasers[j] = Laser_reset(@)]}})

\* Simulator.reset: Cat defines no reset method, so cat.reset() raises
reset(s) ==
    LET s1 == [s EXCEPT !.current_step = 0]
    IN  IF Len(s.cats) > 0 THEN [s1 EXCEPT !.err = "AttributeError"]
        ELSE reset_lasers(s1, 1)

----------------------------------------------------------------------------
(* The simulator as a state machine *)

State ==
    [ house |-> house, cats |-> cats, lasers |-> lasers, arrays |-> arrays,
      current_step |-> current_step, distances |-> distances,
      observations |-> observations, render_artifacts |-> render_artifacts,
      err |-> err ]

Commit(s) ==
    /\ house' = s.house
    /\ cats' = s.cats
    /\ lasers' = s.lasers
    /\ arrays' = s.arrays
    /\ current_step' = s.current_step
    /\ distances' = s.distances
    /\ observations' = s.observations
    /\ render_artifacts' = s.render_artifacts
    /\ err' = s.err

\* samples of npr.uniform(-1.0, 1.0, size=2), in hundredths
RandomDraws == {<<-50, 0>>, <<50, 50>>}

DrawsOf(agent) ==
    IF agent.controller.name = "RandomController" THEN RandomDraws ELSE {Zero}

RECURSIVE DrawsFor(_, _)
DrawsFor(agents, k) ==
    IF k > Len(agents) THEN {<<>>}
    ELSE {<<d>> \o rest : d \in DrawsOf(agents[k]), rest \in DrawsFor(agents, k + 1)}

DrawChoices ==
    {[cats |-> dc, lasers |-> dl] : dc \in DrawsFor(cats, 1), dl \in DrawsFor(lasers, 1)}

\* every velocity times the timestep is a whole number of hundredths
AllRepresentable ==
    /\ \A i \in 1..Len(cats) : Representable(cats[i]._velocity)
    /\ \A j \in 1..Len(lasers) : Representable(lasers[j]._velocity)

StepWithin(limit) ==
    /\ err = "none"
    /\ current_step < limit
    /\ AllRepresentable
    /\ \E draws \in DrawChoices : \E s \in {step(State, draws)} : Commit(s)
    /\ op' = "step"
    /\ asked_steps' = 0
    /\ UNCHANGED <<ctlvars, probe>>

Step == StepWithin(MaxSteps)

Reset ==
    /\ err = "none"
    /\ \E s \in {reset(State)} : Commit(s)
    /\ op' = "reset"
    /\ asked_steps' = 0
    /\ UNCHANGED <<ctlvars, probe>>

StepSaving ==
    /\ err = "none"
    /\ current_step < MaxSteps
    /\ AllRepresentable
    /\ \E draws \in DrawChoices : \E s \in {step_saving(State, draws)} : Commit(s)
    /\ op' = "step"
    /\ asked_steps' = 0
    /\ UNCHANGED <<ctlvars, probe>>

Simulate ==
    /\ err = "none"
    /\ \E n \in 0..MaxSimulate, save \in BOOLEAN :
         /\ current_step + n <= MaxSteps
         /\ \E draws \in [1..n -> DrawChoices] :
              /\ representable_run(State, n, draws, 1)
              /\ \E s \in {simulate(State, n, save, draws)} : Commit(s)
         /\ asked_steps' = n
    /\ op' = "simulate"
    /\ UNCHANGED <<ctlvars, probe>>

\* configurations of agents: [shared, position, velocity, controller]; shared
\* means that initial_position is left to the default of the config class
Choice(shared, position, velocity, controller) ==
    [shared |-> shared, position |-> position, velocity |-> velocity,
     controller |-> controller, sensor |-> NoSensor]

\* the same configuration with a sensor that the caller built
Supplied(choice) == [choice EXCEPT !.sensor = RangingOracle("other", 0)]

CatChoices ==
    { Choice(FALSE, <<200, 200>>, Zero, RangingOracleController("target", DefaultBufferSize)),
      Choice(FALSE, <<249, 0>>, <<200, 0>>, ConstantController(<<200, 0>>)),
      Choice(TRUE, Zero, Zero, RandomController(2, 10)),
      Choice(TRUE, Zero, Zero, ConstantController(Zero)) }

LaserChoices ==
    { Choice(TRUE, Zero, Zero, RangingOracleController("avoid", DefaultBufferSize)),
      Choice(FALSE, <<0, -249>>, <<0, -100>>, ConstantController(<<0, -100>>)),
      Choice(FALSE, <<200, 0>>, Zero, RandomController(2, 10)),
      Choice(FALSE, <<0, 200>>, Zero, RangingOracleController("avoid", DefaultBufferSize)) }

NumRandom(cc, lc) ==
    Cardinality({i \in DOMAIN cc : cc[i].controller.name = "RandomController"})
    + Cardinality({j \in DOMAIN lc : lc[j].controller.name = "RandomController"})

\* the state after Simulator(house, cats, lasers) for the chosen configurations
Construct(h, cc, lc) ==
    LET nc == Len(cc)
        nl == Len(lc)
    IN  /\ house = h
        /\ cats = [i \in 1..nc |->
               Cat(AgentConfig(IF cc[i].shared THEN CatDefaultCell ELSE 2 + i,
                               cc[i].position, cc[i].velocity, cc[i].controller,
                               cc[i].sensor))]
        /\ lasers = [j \in 1..nl |->
               Laser(AgentConfig(IF lc[j].shared THEN LaserDefaultCell ELSE 2 + nc + j,
                                 lc[j].position, lc[j].velocity, lc[j].controller,
                                 lc[j].sensor))]
        /\ arrays = [c \in 1..(2 + nc + nl) |->
               IF c <= 2 THEN Zero
               ELSE IF c <= 2 + nc THEN cc[c - 2].position
               ELSE lc[c - 2 - nc].position]
        /\ current_step = 0
        /\ distances = <<>>
        /\ observations = [cats |-> [i \in 1..nc |-> <<>>], lasers |-> [j \in 1..nl |-> <<>>]]
        /\ render_artifacts = <<>>
        /\ err = IF \E j \in 1..nl : Laser_reset_raises(lasers[j])
                 THEN "AttributeError" ELSE "none"
        /\ op = "init"
        /\ asked_steps = 0

\* no call has been made directly on the house
NoProbe ==
    [op |-> "none", room |-> 0, point |-> Zero, direction |-> Zero,
     translation |-> Zero, translates |-> 0, before |-> <<>>, result |-> <<>>]

NoController ==
    /\ ctl = ConstantController(Zero)
    /\ ctl_in = <<>>
    /\ ctl_out = <<>>
    /\ ctl_err = "none"
    /\ issued = <<>>

Init ==
    /\ \E h \in Houses, nc \in 0..MaxCats, nl \in 0..MaxLasers :
         \E cc \in [1..nc -> CatChoices], lc \in [1..nl -> LaserChoices] :
            /\ NumRandom(cc, lc) <= MaxRandom
            /\ Construct(h, cc, lc)
    /\ NoController
    /\ probe = NoProbe

Next == Step \/ Reset

Spec == Init /\ [][Next]_vars

----------------------------------------------------------------------------
(* Runs of at most one seeker and one evader, with every way of calling step *)

RunCatChoices ==
    CatChoices
    \cup { Choice(FALSE, <<249, 0>>, Zero, ConstantController(<<200, 0>>)),
           Supplied(Choice(FALSE, <<200, 200>>, Zero,
                           RangingOracleController("target", DefaultBufferSize))),
           Supplied(Choice(TRUE, Zero, Zero, ConstantController(Zero))) }

RunLaserChoices ==
    LaserChoices
    \cup { Supplied(Choice(TRUE, Zero, Zero,
                           RangingOracleController("avoid", DefaultBufferSize))),
           Supplied(Choice(FALSE, <<0, 200>>, Zero, ConstantController(Zero))) }

InitRun ==
    /\ \E nc \in 0..1, nl \in 0..1 :
         \E cc \in [1..nc -> RunCatChoices], lc \in [1..nl -> RunLaserChoices] :
            Construct(SimpleHouse, cc, lc)
    /\ NoController
    /\ probe = NoProbe

NextRun == Step \/ StepSaving \/ Simulate

SpecRun == InitRun /\ [][NextRun]_vars

----------------------------------------------------------------------------
(* One seeker and one evader, where the caller also resets the evader itself *)

\* laser.reset() called on evader j
LaserReset ==
    /\ err = "none"
    /\ \E j \in 1..Len(lasers) :
         IF Laser_reset_raises(lasers[j])
         THEN lasers' = lasers /\ err' = "AttributeError"
         ELSE lasers' = [lasers EXCEPT ![j] = Laser_reset(@)] /\ err' = "none"
    /\ op' = "laser.reset"
    /\ asked_steps' = 0
    /\ UNCHANGED <<house, cats, arrays, current_step, distances, observations,
                   render_artifacts, ctlvars, probe>>

InitAgents ==
    /\ \E cc \in [1..1 -> CatChoices], lc \in [1..1 -> LaserChoices] :
         Construct(SimpleHouse, cc, lc)
    /\ NoController
    /\ probe = NoProbe

NextAgents == Step \/ Reset \/ LaserReset

SpecAgents == InitAgents /\ [][NextAgents]_vars

----------------------------------------------------------------------------
(* The scenario of experiments/simple.py with the seeker at (2, 2) *)

InitE2E ==
    /\ Construct(SimpleHouse,
           << Choice(FALSE, <<2 * Meter, 2 * Meter>>, Zero,
                     RangingOracleController("target", DefaultBufferSize)) >>,
           << Choice(TRUE, Zero, Zero,
                     RangingOracleController("avoid", DefaultBufferSize)) >>)
    /\ NoController
    /\ probe = NoProbe

StepRun == StepWithin(RunLimit)

SpecE2E == InitE2E /\ [][StepRun]_vars

\* the driver calls step again as long as no call has raised
LiveE2E == SpecE2E /\ WF_vars(StepRun)

----------------------------------------------------------------------------
(* One seeker in "target" mode and one evader in "avoid" mode, in either house *)

PairCatChoices ==
    { Choice(FALSE, <<200, 200>>, Zero, RangingOracleController("target", DefaultBufferSize)),
      Choice(FALSE, <<199, 200>>, <<100, 0>>, RangingOracleController("target", DefaultBufferSize)),
      Choice(FALSE, <<350, 0>>, Zero, RangingOracleController("target", DefaultBufferSize)) }

PairLaserChoices ==
    { Choice(TRUE, Zero, Zero, RangingOracleController("avoid", DefaultBufferSize)),
      Choice(FALSE, <<-50, 0>>, Zero, RangingOracleController("avoid", DefaultBufferSize)),
      Choice(FALSE, <<0, -100>>, <<0, 100>>, RangingOracleController("avoid", DefaultBufferSize)) }

\* both agents are put inside the house
InitPair ==
    /\ \E h \in Houses, c \in PairCatChoices, l \in PairLaserChoices :
         /\ House_inside(h, c.position)
         /\ House_inside(h, l.position)
         /\ Construct(h, <<c>>, <<l>>)
    /\ NoController
    /\ probe = NoProbe

SpecPair == InitPair /\ [][StepRun]_vars

----------------------------------------------------------------------------
(* A controller called directly with a collection of observations *)

ObsPayloads == {Zero, <<300, 0>>, <<0, -300>>, <<300, 400>>}

RECURSIVE SeqsUpTo(_, _)
SeqsUpTo(S, n) ==
    IF n = 0 THEN {<<>>}
    ELSE SeqsUpTo(S, n - 1) \cup {Append(q, x) : q \in {r \in SeqsUpTo(S, n - 1) : Len(r) = n - 1}, x \in S}

ObsCollections == SeqsUpTo(ObsPayloads, MaxObs)

Controllers ==
    {RangingOracleController(m, n) : m \in {"target", "avoid", "chase"}, n \in 1..MaxBuffer}
    \cup {RandomController(2, n) : n \in 1..MaxBuffer}
    \cup {ConstantController(<<100, 0>>)}

InitCtl ==
    /\ Construct(SimpleHouse, <<>>, <<>>)
    /\ ctl \in Controllers
    /\ ctl_in = <<>>
    /\ ctl_out = <<>>
    /\ ctl_err = "none"
    /\ issued = <<>>
    /\ probe = NoProbe

Call ==
    /\ ctl_err = "none"
    /\ Len(issued) < MaxCalls
    /\ \E state \in ObsCollections, draw \in DrawsOf([controller |-> ctl]) :
         LET r == Controller_call(ctl, state, draw)
         IN  /\ ctl' = r.controller
             /\ ctl_in' = state
             /\ ctl_out' = r.payload
             /\ ctl_err' = r.err
             /\ issued' = IF r.err = "none" THEN Append(issued, r.payload) ELSE issued
    /\ UNCHANGED <<simvars, probe>>

SpecCtl == InitCtl /\ [][Call]_vars

----------------------------------------------------------------------------
(* The house and its rooms called directly *)

MaxTranslates == 2

Translations == {<<100, 0>>, <<0, -50>>, <<-100, 0>>}

Points == {<<x, y>> : x \in {-250, -150, 0, 250, 350, 450}, y \in {-250, 0, 100, 300}}

Directions == {<<1, 0>>, <<-1, 0>>, <<0, 1>>, <<0, -1>>, <<0, 3>>}

InitWorld ==
    /\ \E h \in Houses : Construct(h, <<>>, <<>>)
    /\ NoController
    /\ probe = NoProbe

\* room.translate(translation) on room r of the house
Translate ==
    /\ probe.translates < MaxTranslates
    /\ \E r \in 1..Len(house), translation \in Translations :
         /\ house' = [house EXCEPT ![r] = ClosedRoom_translate(@, translation)]
         /\ probe' = [NoProbe EXCEPT !.op = "translate", !.room = r,
                                     !.translation = translation,
                                     !.translates = probe.translates + 1,
                                     !.before = house[r]]
    /\ UNCHANGED <<cats, lasers, arrays, current_step, distances, observations,
                   render_artifacts, err, op, asked_steps, ctlvars>>

\* a call that changes nothing is followed by the calls that could follow the
\* call before it, and those are taken there
Fresh == probe.op \in {"none", "translate"}

\* room.inside(point) on room r of the house
Inside ==
    /\ Fresh
    /\ \E r \in 1..Len(house), point \in Points :
         probe' = [NoProbe EXCEPT !.op = "inside", !.room = r, !.point = point,
                                 !.translates = probe.translates,
                                 !.result = ClosedRoom_inside(house[r], point)]
    /\ UNCHANGED <<simvars, ctlvars>>

\* house.distance_to_boundary(point, direction)
Distance ==
    /\ Fresh
    /\ \E point \in Points, direction \in Directions :
         probe' = [NoProbe EXCEPT !.op = "distance", !.point = point,
                                 !.direction = direction,
                                 !.translates = probe.translates,
                                 !.result = House_distance_to_boundary(house, point, direction)]
    /\ UNCHANGED <<simvars, ctlvars>>

NextWorld == Translate \/ Inside \/ Distance

SpecWorld == InitWorld /\ [][NextWorld]_vars

----------------------------------------------------------------------------
(* What the claims speak of, stated without the operators of the model *)

Abs(x) == IF x < 0 THEN 0 - x ELSE x

\* p lies in the open rectangle of a room
InOpenRectangle(room, p) ==
    /\ Abs(p[1] - room.origin[1]) < room.half_width
    /\ Abs(p[2] - room.origin[2]) < room.half_height

InHouse(p) == \E r \in 1..Len(house) : InOpenRectangle(house[r], p)

CatPos(i) == arrays[cats[i]._position]

LaserPos(j) == arrays[lasers[j]._position]

\* the squared distance between cat i and laser j in the current state
D(i, j) == NormSq(Sub(CatPos(i), LaserPos(j)))

StepDone == op = "step" /\ err = "none"

----------------------------------------------------------------------------
(* C1, C2: the end-to-end scenario *)

\* C1 as stated: after exactly one step of the end-to-end scenario the
\* seeker's velocity is (-2, -2) and the evader's velocity is (2, 2).
C1_AsStated ==
    (current_step = 1 /\ err = "none") =>
        /\ cats[1]._velocity = <<-2 * Meter, -2 * Meter>>
        /\ lasers[1]._velocity = <<2 * Meter, 2 * Meter>>

\* C1 as amended: after exactly one step of the end-to-end scenario the
\* seeker's velocity is (-2, -2), towards the evader, and the evader's velocity
\* is (-2, -2) too, away from the seeker.
C1_FirstStepVelocities ==
    (current_step = 1 /\ err = "none") =>
        /\ cats[1]._velocity = <<-2 * Meter, -2 * Meter>>
        /\ lasers[1]._velocity = <<-2 * Meter, -2 * Meter>>

C1_Witness ==
    /\ StepDone
    /\ current_step = 1
    /\ CatPos(1) = <<2 * Meter, 2 * Meter>>
    /\ LaserPos(1) = Zero

\* C2: in the end-to-end scenario repeated steps eventually reach a step in
\* which an agent's integrated position is not inside the room, and that step
\* raises the collision error; the run does not go on for ever.
C2_EventuallyCollides ==
    <>(/\ err = "Collision"
       /\ \/ \E i \in 1..Len(cats) : ~InHouse(CatPos(i))
          \/ \E j \in 1..Len(lasers) : ~InHouse(LaserPos(j)))

C2_Witness ==
    /\ err = "Collision"
    /\ op = "step"
    /\ current_step = 125
    /\ LaserPos(1) = <<0 - 250, 0 - 250>>
    /\ InHouse(CatPos(1))

----------------------------------------------------------------------------
(* C3: a move out of the house is fatal *)

\* no other agent holds the position array of this agent
OwnArray(cell) ==
    Cardinality({i \in 1..Len(cats) : cats[i]._position = cell})
    + Cardinality({j \in 1..Len(lasers) : lasers[j]._position = cell}) = 1

Agents == [i \in 1..Len(cats) |-> cats[i]] \o [j \in 1..Len(lasers) |-> lasers[j]]

\* C3: in every step, if the integrated position p + v*dt of a seeker or an
\* evader is not strictly inside the house (a position on a wall is not
\* inside), the step fails with the collision error; the position is not
\* clamped, the move is not retried, and the step does not go on to the
\* distances, the targets or the sensing.
C3_CollisionIsFatal ==
    [][ op' = "step" =>
          LET outside ==
                  \E a \in 1..Len(Agents) :
                      \/ ~InHouse(arrays'[Agents[a]._position])
                      \/ /\ OwnArray(Agents[a]._position)
                         /\ ~InHouse(Add(arrays[Agents[a]._position],
                                         TimesDt(Agents[a]._velocity)))
          IN  /\ outside => err' = "Collision"
              /\ err' = "Collision" =>
                    /\ outside
                    /\ cats' = cats
                    /\ lasers' = lasers
                    /\ current_step' = current_step
                    /\ distances' = <<>>
                    /\ \A i \in 1..Len(cats) : observations'.cats[i] = <<>>
                    /\ \A j \in 1..Len(lasers) : observations'.lasers[j] = <<>>
              /\ \A a \in 1..Len(Agents) :
                    OwnArray(Agents[a]._position) =>
                        LET before == arrays[Agents[a]._position]
                            after  == arrays'[Agents[a]._position]
                            integrated == Add(before, TimesDt(Agents[a]._velocity))
                        IN  /\ after \in {before, integrated}
                            /\ err' # "Collision" => after = integrated
      ]_vars

\* a step that failed because an evader came to lie exactly on a wall, after
\* a seeker had been moved
C3_Witness ==
    /\ op = "step"
    /\ err = "Collision"
    /\ \E j \in 1..Len(lasers) : LaserPos(j) = <<0, 0 - 250>>
    /\ \E i \in 1..Len(cats) : CatPos(i) = <<251, 0>>

----------------------------------------------------------------------------
(* C4: reset *)

\* C4: after any sequence of successful steps, reset completes without error,
\* sets current_step to 0 and leaves every agent's position and velocity equal
\* to the initial position and initial velocity it was configured with.
C4_ResetRestores ==
    op = "reset" =>
        /\ err = "none"
        /\ current_step = 0
        /\ \A a \in 1..Len(Agents) :
              /\ arrays[Agents[a]._position] = Agents[a].config.configured_position
              /\ Agents[a]._velocity = Agents[a].config.initial_velocity

----------------------------------------------------------------------------
(* C5, C6, C10: a controller called directly *)

Buffered == ctl.name \in {"RangingOracleController", "RandomController"}

\* C5: the history of a controller with a history buffer of capacity N >= 1
\* never holds more than N entries, whatever the calls.
C5_HistoryWithinCapacity ==
    Buffered => Len(ctl._history) <= ctl._buffer_size

\* more calls than the capacity, and a full history
C5_Witness ==
    /\ Buffered
    /\ Len(issued) > ctl._buffer_size
    /\ Len(ctl._history) = ctl._buffer_size

\* C6: once the history is full each further call evicts the oldest entry, so
\* after k > N calls the history holds the N most recent commands in the order
\* they were issued.
C6_KeepsMostRecent ==
    (Buffered /\ Len(issued) > ctl._buffer_size) =>
        ctl._history = SubSeq(issued, Len(issued) - ctl._buffer_size + 1, Len(issued))

\* the observations of ctl_in in the order f
Reordered(f) == [k \in 1..Len(ctl_in) |-> ctl_in[f[k]]]

\* C10: a RangingOracleController called on a non-empty collection returns, in
\* "target" mode, the payload of the observation of largest norm (the first
\* such one on ties) and in "avoid" mode its negation; when the norms differ
\* the result is the same for every order of the observations.
C10_LargestNormSelected ==
    ( /\ ctl.name = "RangingOracleController"
      /\ ctl._mode \in {"target", "avoid"}
      /\ Len(issued) > 0
      /\ Len(ctl_in) > 0 )
    => /\ ctl_err = "none"
       /\ \E k \in 1..Len(ctl_in) :
            /\ \A m \in 1..Len(ctl_in) : NormSq(ctl_in[m]) <= NormSq(ctl_in[k])
            /\ \A m \in 1..(k - 1) : NormSq(ctl_in[m]) < NormSq(ctl_in[k])
            /\ ctl_out = IF ctl._mode = "target" THEN ctl_in[k]
                         ELSE <<0 - ctl_in[k][1], 0 - ctl_in[k][2]>>
       /\ (\A m, n \in 1..Len(ctl_in) : m # n => NormSq(ctl_in[m]) # NormSq(ctl_in[n]))
            => \A f \in Permutations(1..Len(ctl_in)) :
                  RangingOracleController_call(ctl, Reordered(f)).payload = ctl_out

\* observations of norms 3 and 5 in "avoid" mode, and the negated norm-5 one
\* returned
C10_Witness ==
    /\ ctl.name = "RangingOracleController"
    /\ ctl._mode = "avoid"
    /\ ctl_in = << <<300, 0>>, <<300, 400>> >>
    /\ ctl_out = <<-300, -400>>

----------------------------------------------------------------------------
(* C7, C8, C9: targets, distances and sensing within a step *)

\* C7: after every successful step with at least one seeker and one evader,
\* each seeker's target is the evader nearest to the seeker's position after
\* the move, each evader's target is the seeker nearest to it, ties go to the
\* lowest index, and with one seeker and one evader each targets the other.
C7_NearestTarget ==
    (StepDone /\ Len(cats) > 0 /\ Len(lasers) > 0) =>
        /\ \A i \in 1..Len(cats) :
              LET t == cats[i]._target
              IN  /\ t \in 1..Len(lasers)
                  /\ \A j \in 1..Len(lasers) : D(i, t) <= D(i, j)
                  /\ \A j \in 1..(t - 1) : D(i, j) > D(i, t)
        /\ \A j \in 1..Len(lasers) :
              LET t == lasers[j]._target
              IN  /\ t \in 1..Len(cats)
                  /\ \A i \in 1..Len(cats) : D(t, j) <= D(i, j)
                  /\ \A i \in 1..(t - 1) : D(i, j) > D(t, j)
        /\ (Len(cats) = 1 /\ Len(lasers) = 1) =>
              cats[1]._target = 1 /\ lasers[1]._target = 1

\* a seeker with two evaders at the same distance and at different places
C7_Witness ==
    /\ StepDone
    /\ Len(cats) > 0
    /\ Len(lasers) = 2
    /\ LaserPos(1) # LaserPos(2)
    /\ D(1, 1) = D(1, 2)
    /\ cats[1]._target = 1

\* C8: within one step the positions of all seekers and all evaders are
\* updated before any distance is computed, so every distance, every target
\* and every observation of the step comes from the positions after the move
\* of all agents.
C8_DistancesAfterAllMoves ==
    (StepDone /\ Len(cats) > 0 /\ Len(lasers) > 0) =>
        /\ \A i \in 1..Len(cats), j \in 1..Len(lasers) : distances[i][j] = D(i, j)
        /\ \A i \in 1..Len(cats) :
              /\ cats[i]._target \in 1..Len(lasers)
              /\ observations.cats[i] = Sub(LaserPos(cats[i]._target), CatPos(i))
        /\ \A j \in 1..Len(lasers) :
              /\ lasers[j]._target \in 1..Len(cats)
              /\ observations.lasers[j] = Sub(CatPos(lasers[j]._target), LaserPos(j))

\* the second step of a seeker and an evader that both moved in it
C8_Witness ==
    /\ StepDone
    /\ current_step = 2
    /\ Len(cats) = 1
    /\ Len(lasers) = 1
    /\ CatPos(1) = <<198, 198>>
    /\ LaserPos(1) = <<-2, -2>>
    /\ distances[1][1] = 80000

\* C9: whenever a sensor is read in a step, it has been given a target earlier
\* in that step: no sensor is ever read without a target, and after a
\* successful step every agent's sensor has been read with a target.
C9_NoReadWithoutTarget ==
    /\ err # "MissingTarget"
    /\ StepDone =>
          /\ \A i \in 1..Len(cats) :
                cats[i].sensor._target \in 1..Len(lasers) /\ observations.cats[i] # <<>>
          /\ \A j \in 1..Len(lasers) :
                lasers[j].sensor._target \in 1..Len(cats) /\ observations.lasers[j] # <<>>

\* the first step after construction, with both sensors read
C9_Witness ==
    /\ StepDone
    /\ current_step = 1
    /\ Len(cats) > 0
    /\ Len(lasers) > 0
    /\ observations.cats[1] # <<>>
    /\ observations.lasers[1] # <<>>

----------------------------------------------------------------------------
(* C11: a controller with an unknown mode *)

UnknownMode == ctl.name = "RangingOracleController" /\ ctl._mode \notin {"target", "avoid"}

\* C11: every call of a RangingOracleController whose mode is neither "target"
\* nor "avoid" raises at that call, for every collection of observations: it
\* returns no control signal and appends nothing to the history.
C11_UnknownModeAlwaysRaises ==
    [][ UnknownMode =>
          /\ ctl_err' = "NotImplementedError"
          /\ ctl_out' = <<>>
          /\ ctl'._history = ctl._history
      ]_vars

----------------------------------------------------------------------------
(* C12, C13, C19: the rooms and the house called directly *)

\* C12: ClosedRoom.inside(point) is true exactly when the offset of the point
\* from the origin of the room is less than half the width and half the
\* height in absolute value on both axes, strictly; for a point on an edge of
\* that rectangle or outside it, it is false.
C12_InsideIsOpenRectangle ==
    probe.op = "inside" =>
        LET room == house[probe.room]
            dx == Abs(probe.point[1] - room.origin[1])
            dy == Abs(probe.point[2] - room.origin[2])
            on_edge == \/ dx = room.half_width /\ dy <= room.half_height
                       \/ dy = room.half_height /\ dx <= room.half_width
            outside == dx > room.half_width \/ dy > room.half_height
        IN  /\ probe.result = (dx < room.half_width /\ dy < room.half_height)
            /\ (on_edge \/ outside) => probe.result = FALSE

\* a point on the right edge of a room that was moved, found not inside
C12_Witness ==
    /\ probe.op = "inside"
    /\ house[probe.room].origin = <<100, 0>>
    /\ probe.point = <<350, 100>>
    /\ probe.result = FALSE

\* C13: for every room reached by construction and earlier translate calls,
\* every vector t and every point p, inside(p + t) after translate(t) is what
\* inside(p) was just before that call.
C13_TranslateMovesInside ==
    probe.op = "translate" =>
        \A p \in Points :
            ClosedRoom_inside(house[probe.room], Add(p, probe.translation))
                = ClosedRoom_inside(probe.before, p)

\* what room r contributes to the distance of the house: its own distance,
\* and infinity when the ray hits none of its walls
Contribution(r) ==
    LET d == ClosedRoom_distance_to_boundary(house[r], probe.point, probe.direction)
    IN  IF d.type = "list" THEN Infinity ELSE d.x

\* C19: House.distance_to_boundary returns a scalar, the minimum over the
\* rooms of each room's distance to its boundary, where a room without a wall
\* that the ray hits counts as infinity; it returns infinity, and does not
\* raise, when the ray hits no wall of any room.
C19_HouseDistanceIsMinimum ==
    probe.op = "distance" =>
        /\ probe.result.err = "none"
        /\ probe.result.type \in {"float", "float64"}
        /\ \A r \in 1..Len(house) : ~less_than(Contribution(r), probe.result.x)
        /\ \/ \E r \in 1..Len(house) : Contribution(r) = probe.result.x
           \/ probe.result.x = Infinity

----------------------------------------------------------------------------
(* C14: the sensor of an agent *)

\* the agent senses with the sensor its configuration names, or with a
\* RangingOracle of its own when the configuration names none
SensorAsConfigured(agent, observation) ==
    IF agent.config.sensor = NoSensor
    THEN agent.sensor.name = "RangingOracle" /\ agent.sensor._subject = "self"
    ELSE /\ err # "AttributeError"
         /\ agent.sensor.name = agent.config.sensor.name
         /\ agent.sensor._subject = agent.config.sensor._subject
         /\ StepDone => observation # <<>>

\* C14: an agent (Cat or Laser) constructed with a sensor supplied in its
\* configuration is usable and senses with that sensor; an agent constructed
\* without one gets a RangingOracle whose subject is the agent itself.
C14_SensorAsConfigured ==
    /\ \A i \in 1..Len(cats) : SensorAsConfigured(cats[i], observations.cats[i])
    /\ \A j \in 1..Len(lasers) : SensorAsConfigured(lasers[j], observations.lasers[j])

----------------------------------------------------------------------------
(* C15, C18, C20: what a step does to the agents *)

\* C15: a call of step is never seen half done: after it returns, normally or
\* with an error, either the whole step has been applied (every agent moved,
\* current_step one more) or no position, velocity, target, controller
\* history or step counter has changed.
C15_StepIsAllOrNothing ==
    [][ op' = "step" =>
          /\ err' = "none" =>
                /\ current_step' = current_step + 1
                /\ \A a \in 1..Len(Agents) :
                      OwnArray(Agents[a]._position) =>
                          arrays'[Agents[a]._position]
                              = Add(arrays[Agents[a]._position], TimesDt(Agents[a]._velocity))
          /\ err' # "none" =>
                /\ arrays' = arrays
                /\ cats' = cats
                /\ lasers' = lasers
                /\ current_step' = current_step
      ]_vars

\* C18: after every successful step the norm of the velocity of every seeker
\* and every evader is at most the max_speed of that agent.
C18_SpeedWithinMaximum ==
    StepDone =>
        \A a \in 1..Len(Agents) :
            NormSq(Agents[a]._velocity) <= Agents[a]._max_speed * Agents[a]._max_speed

\* C20: agents share no physical state: in a step the position of an agent
\* changes by that agent's own velocity * dt or not at all, whatever the other
\* agents do, and the initial_position stored in a configuration does not
\* change.
C20_NoSharedPosition ==
    [][ op' = "step" =>
          \A a \in 1..Len(Agents) :
              LET agent == Agents[a]
              IN  /\ arrays'[agent._position]
                        \in {arrays[agent._position],
                             Add(arrays[agent._position], TimesDt(agent._velocity))}
                  /\ arrays'[agent.config.initial_position]
                        = arrays[agent.config.initial_position]
      ]_vars

----------------------------------------------------------------------------
(* C16, C17: the options of step, and simulate *)

\* the list that an artifact holds as "control", as it is after the call
LiveHistory(ref) ==
    IF ref.of = "cats" THEN cats'[ref.index].controller._history
    ELSE lasers'[ref.index].controller._history

\* C16: taking render artifacts does not touch the simulation: for every
\* state, step(save_render_artifacts=True) leaves the positions, velocities,
\* targets, controller histories and current_step that step() leaves, and the
\* snapshot taken holds the state of the agents as it was before the step.
C16_SnapshotOfStateBefore ==
    [][ (op' = "step" /\ Len(render_artifacts') = Len(render_artifacts) + 1) =>
          LET artifact == render_artifacts'[Len(render_artifacts')]
          IN  /\ \E draws \in DrawChoices :
                    \E s \in {step(State, draws)} :
                        /\ arrays' = s.arrays
                        /\ cats' = s.cats
                        /\ lasers' = s.lasers
                        /\ current_step' = s.current_step
                        /\ err' = s.err
              /\ \A i \in 1..Len(cats) :
                    /\ artifact.cats[i].cat.object = cats[i]
                    /\ artifact.cats[i].cat.position = arrays[cats[i]._position]
                    /\ LiveHistory(artifact.cats[i].control) = cats[i].controller._history
              /\ \A j \in 1..Len(lasers) :
                    /\ artifact.lasers[j].laser.object = lasers[j]
                    /\ artifact.lasers[j].laser.position = arrays[lasers[j]._position]
                    /\ LiveHistory(artifact.lasers[j].control) = lasers[j].controller._history
      ]_vars

\* the state after k calls of step in a row
RECURSIVE AfterSteps(_, _, _, _)
AfterSteps(s, save, draws, k) ==
    IF k = 0 THEN s
    ELSE IF save THEN step_saving(AfterSteps(s, save, draws, k - 1), draws[k])
    ELSE step(AfterSteps(s, save, draws, k - 1), draws[k])

\* C17: current_step is 0 after construction; a successful step adds exactly
\* 1 to it and a failing step leaves it as it was; simulate(n) makes n steps
\* in a row and adds n when none fails, and stops at the first step that
\* fails.
C17_StepCounter ==
    /\ [](op = "init" => current_step = 0)
    /\ [][ /\ op' = "step" =>
                current_step' = current_step + (IF err' = "none" THEN 1 ELSE 0)
           /\ op' = "simulate" =>
                \E k \in 0..asked_steps', save \in BOOLEAN :
                    \E draws \in [1..k -> DrawChoices] :
                        /\ State' = AfterSteps(State, save, draws, k)
                        /\ \A m \in 0..(k - 1) : AfterSteps(State, save, draws, m).err = "none"
                        /\ k < asked_steps' => err' # "none"
                        /\ current_step' = current_step
                               + (IF err' = "none" THEN asked_steps' ELSE k - 1)
         ]_vars

\* simulate(2) whose first step succeeded and whose second step took the
\* seeker through the wall
C17_Witness ==
    /\ op = "simulate"
    /\ asked_steps = 2
    /\ current_step = 1
    /\ err = "Collision"
    /\ CatPos(1) = <<251, 0>>

----------------------------------------------------------------------------
(* C21: the origin of a room and its walls *)

\* the walls of the room are the four sides, in order and end to end, of the
\* rectangle of the configured width and height about the point c
WallsAbout(room, c) ==
    LET bl == <<c[1] - room.half_width, c[2] - room.half_height>>
        br == <<c[1] + room.half_width, c[2] - room.half_height>>
        tr == <<c[1] + room.half_width, c[2] + room.half_height>>
        tl == <<c[1] - room.half_width, c[2] + room.half_height>>
    IN  /\ Len(room._walls) = 4
        /\ room._walls[1].endpoints = <<bl, br>>
        /\ room._walls[2].endpoints = <<br, tr>>
        /\ room._walls[3].endpoints = <<tr, tl>>
        /\ room._walls[4].endpoints = <<tl, bl>>
        /\ 2 * room.half_width = room._width
        /\ 2 * room.half_height = room._height

\* C21: after any sequence of translate calls the region that inside accepts
\* (the origin plus or minus half the width and half the height) is the
\* rectangle that the four walls bound: the origin is the centre of the walls
\* and the walls are still the closed rectangle of the configured size.
C21_OriginIsCentreOfWalls ==
    \A r \in 1..Len(house) : WallsAbout(house[r], house[r].origin)

----------------------------------------------------------------------------
(* C22: the target of a sensor *)

\* C22: for every agent whose sensor is a RangingOracle, in every state
\* reached by steps and resets the target of the sensor is the same object as
\* the target of the agent: both unset, or both the same agent.
C22_SensorTargetIsOwnTarget ==
    \A a \in 1..Len(Agents) :
        Agents[a].sensor.name = "RangingOracle" =>
            Agents[a].sensor._target = Agents[a]._target

----------------------------------------------------------------------------
(* C23: a seeker in "target" mode against an evader in "avoid" mode *)

\* from the seeker to the evader
Displacement == Sub(LaserPos(1), CatPos(1))

====
